---- MODULE Spec2Model ----
(***************************************************************************)
(* The request core of the E-Trade client (src/src/e-trade-api.ts): the    *)
(* constructor, getBasicRequest, signRequest, request and the endpoint     *)
(* methods, with the throttle, the signer and the transport they call.     *)
(***************************************************************************)
EXTENDS Integers, Sequences, FiniteSets, TLC

(* ------------------------------ bounds -------------------------------- *)

\* calls made on one client in one behaviour
MaxCalls == 3
\* largest connectionLimit a client is built with
MaxLimit == 2
\* largest connectionLimitPeriod (in clock ticks) a client is built with
MaxPeriod == 1

Calls == 1 .. MaxCalls

(* ------------------------- values and records ------------------------- *)

\* JavaScript's undefined, where a string is expected
Undefined == "<undefined>"

\* a request without a data field
NoData == [present |-> FALSE, root |-> "", content |-> "", previewIds |-> <<>>]

\* the payloads a caller passes to an endpoint that takes an order
Payloads == {"orderA", "orderB"}

\* the previewIds argument that comes with an order: the preview ids an earlier
\* previewOrder returned, in the order it returned them
PreviewIdsOf(p) ==
    IF p = "orderA" THEN << "preview1627181131" >>
    ELSE << "preview2", "preview1", "preview2" >>

\* the symbols argument of getQuotes, by the payload that names it
SymbolPayloads == {"TSLA,GOOG", "TSLA"}

SymbolsOf(p) == IF p = "TSLA,GOOG" THEN << "TSLA", "GOOG" >> ELSE << "TSLA" >>

\* the {key, secret} pair a caller passes to getAccessToken, renewAccessToken
\* and revokeAccessToken, by the payload that names it
PairPayloads == {"pairA", "pairB"}

PairOf(p) ==
    IF p = "pairA" THEN [key |-> "tokenA", secret |-> "secretA"]
    ELSE [key |-> "tokenB", secret |-> "secretB"]

\* symbols.join(','): the parts of the joined string
RECURSIVE JoinWithComma(_)
JoinWithComma(symbols) ==
    IF Len(symbols) = 0 THEN << >>
    ELSE IF Len(symbols) = 1 THEN symbols
    ELSE << Head(symbols), "," >> \o JoinWithComma(Tail(symbols))

\* an HTTP response body: absent (null/undefined), the empty string, or an
\* object that may carry Error, which may carry code and message
Body(shape, hasError, hasCode, code, hasMessage, message) ==
    [shape |-> shape, hasError |-> hasError, hasCode |-> hasCode, code |-> code,
     hasMessage |-> hasMessage, message |-> message]

AbsentBody == Body("absent", FALSE, FALSE, 0, FALSE, Undefined)
EmptyBody == Body("empty", FALSE, FALSE, 0, FALSE, Undefined)
PlainBody == Body("object", FALSE, FALSE, 0, FALSE, Undefined)

ErrorBodies ==
    { Body("object", TRUE, hc, IF hc THEN code ELSE 0, hm, IF hm THEN "Invalid symbol" ELSE Undefined) :
        hc \in BOOLEAN, code \in {0, 1032}, hm \in BOOLEAN }

ResponseBodies == {AbsentBody, EmptyBody, PlainBody} \cup ErrorBodies

\* what axios.request does with one request
NoOutcome == [kind |-> "none", status |-> 0, statusText |-> "", data |-> AbsentBody]

HttpStatuses == { <<400, "Bad Request">>, <<500, "Internal Server Error">> }

\* a 200 response: its body is the endpoint's response (PlainBody), or an object
\* that carries Error instead of it
SuccessOutcomes ==
    { [kind |-> "success", status |-> 200, statusText |-> "OK", data |-> b] :
        b \in {PlainBody} \cup ErrorBodies }

HttpErrorOutcomes ==
    { [kind |-> "httpError", status |-> s[1], statusText |-> s[2], data |-> b] :
        s \in HttpStatuses, b \in ResponseBodies }

NetworkErrorOutcomes ==
    { [kind |-> "networkError", status |-> 0, statusText |-> m, data |-> AbsentBody] :
        m \in {"ECONNREFUSED", "ETIMEDOUT"} }

Outcomes == SuccessOutcomes \cup HttpErrorOutcomes \cup NetworkErrorOutcomes

\* a settled promise: a value, or an error object. origin tells which code
\* created the object: two errors are the same object only if origin agrees.
Settled(kind, origin, message, hasCode, code, hasRaw, raw) ==
    [kind |-> kind, origin |-> origin, message |-> message, hasCode |-> hasCode,
     code |-> code, hasRaw |-> hasRaw, raw |-> raw]

NoResult == Settled("none", "", "", FALSE, 0, FALSE, AbsentBody)

(* ------------------------------ state --------------------------------- *)

VARIABLES
    settings,   \* ETrade.settings
    throttle,   \* the Throttle the constructor built: its three arguments
    slots,      \* throttle: per slot, the call holding it and ticks since its admission
    queue,      \* throttle: the calls waiting for admission, oldest first
    _id,        \* ETrade._id, the call sequence counter
    pc,         \* per call: idle, queued, executing, resolved, rejected
    endpoint,   \* per call: the endpoint method invoked
    payload,    \* per call: the payload the caller passed
    authInput,  \* per call: the request and token handed to oauth.authorize
    options,    \* per call: the request handed to request() and so to axios.request
    callId,     \* per call: the id the unit of work took from _id (0: not started)
    waited,     \* per call: whether acquire put it in the queue
    outcome,    \* per call: what the transport did
    result,     \* per call: how the promise returned by request() settled
    given,      \* the options object the constructor was called with
    oauth,      \* ETrade.oauth: the consumer the signer was built with
    install,    \* the caller's place in the token installation of the README:
                \* the pair whose key is assigned and whose secret is not yet
    consumer,   \* per call: the consumer oauth.authorize signed the request with
    requests,   \* per call: how many times axios.request was called for it
    authorizeUrl, \* per call: the key in the url requestToken returned
    signatures, \* per call: how many times oauth.authorize was called for it
    log,        \* per call: what debugRequest and debugResponse logged, in order
    tokenAtStart, \* per call: the access token the settings held when its unit started
    merged,     \* the last merge(target, source) applied, with its result
    heap,       \* the objects ETrade.defaults, the constructor options and the settings are
    clients     \* per client instance: whether constructed, and the options it was given

vars == <<settings, throttle, slots, queue, _id, pc, endpoint, payload,
          authInput, options, callId, waited, outcome, result,
          given, oauth, install, consumer, requests, authorizeUrl,
          signatures, log, tokenAtStart, merged, heap, clients>>

(* -------------------------------- merge ------------------------------- *)

\* an object without keys
NoFields == [f \in {} |-> ""]

\* the values merge works on: primitives, arrays and plain objects (mappings)
Prim(v) == [type |-> "prim", prim |-> v, items |-> << >>, fields |-> NoFields]

Arr(items) == [type |-> "array", prim |-> "", items |-> items, fields |-> NoFields]

Map(fields) == [type |-> "map", prim |-> "", items |-> << >>, fields |-> fields]

\* a key an object has or has not
Field(present, f, v) == IF present THEN f :> v ELSE NoFields

\* Object.assign(target, source): the source's value replaces the target's for
\* every key it has, nested objects included
ShallowMerge(target, source) ==
    IF target.type = "map" /\ source.type = "map"
    THEN Map([k \in DOMAIN target.fields \cup DOMAIN source.fields |->
                 IF k \in DOMAIN source.fields THEN source.fields[k] ELSE target.fields[k]])
    ELSE source

\* merge(target, source) of deepmerge with its default options: two objects are
\* merged key by key, recursively; two arrays are concatenated; in every other
\* case the source's value (a copy of it) replaces the target's
RECURSIVE DeepMerge(_, _)
DeepMerge(target, source) ==
    IF target.type = "map" /\ source.type = "map"
    THEN Map([k \in DOMAIN target.fields \cup DOMAIN source.fields |->
                 IF k \notin DOMAIN source.fields THEN target.fields[k]
                 ELSE IF k \notin DOMAIN target.fields THEN source.fields[k]
                 ELSE DeepMerge(target.fields[k], source.fields[k])])
    ELSE IF target.type = "array" /\ source.type = "array"
    THEN Arr(target.items \o source.items)
    ELSE source

\* no merge applied yet
NotMerged == [done |-> FALSE, target |-> Map(NoFields), source |-> Map(NoFields),
              result |-> Map(NoFields)]

\* lines 74-80: the object getBasicRequest merges the request options into
BasicRequestTargets ==
    { Map([method |-> Prim("GET"), baseURL |-> Prim(base),
           headers |-> Map([UserAgent |-> Prim("node-e-trade")]), proxy |-> Prim("false")]) :
        base \in {"https://apisb.etrade.com/v1/", "https://api.etrade.com/v1/"} }

\* request options: each of method, url, headers, proxy and data given or not
RequestSources ==
    { Map(Field(m, "method", Prim("POST"))
          @@ Field(u, "url", Prim("accounts/list.json"))
          @@ Field(h # "", "headers",
                   Map(Field(h \in {"agent", "both"}, "UserAgent", Prim("custom-agent"))
                       @@ Field(h \in {"accept", "both"}, "Accept", Prim("application/json"))))
          @@ Field(x, "proxy", Map([host |-> Prim("127.0.0.1"), port |-> Prim("9000")]))
          @@ Field(d, "data",
                   Map([PlaceOrderRequest |->
                           Map([PreviewIds |-> Arr(<< "preview2", "preview1" >>)])]))) :
        m \in BOOLEAN, u \in BOOLEAN, h \in {"", "agent", "accept", "both"},
        x \in BOOLEAN, d \in BOOLEAN }

\* line 57: ETrade.defaults, the object the constructor merges the options into
SettingsTarget ==
    Map([mode |-> Prim("dev"), key |-> Prim(""),
         urls |-> Map([oauth |-> Prim("https://api.etrade.com/oauth/"),
                       prod |-> Prim("https://api.etrade.com/v1/"),
                       dev |-> Prim("https://apisb.etrade.com/v1/")]),
         proxy |-> Prim("false")])

\* constructor options: each of mode, key, urls.dev, urls.prod given or not
SettingsSources ==
    { Map(Field(m, "mode", Prim("prod"))
          @@ Field(k, "key", Prim("key"))
          @@ Field(ud \/ up, "urls",
                   Map(Field(ud, "dev", Prim("https://dev.example/v1/"))
                       @@ Field(up, "prod", Prim("https://prod.example/v1/"))))) :
        m \in BOOLEAN, k \in BOOLEAN, ud \in BOOLEAN, up \in BOOLEAN }

\* the merges the client makes: (target, source)
MergeInputs ==
    (BasicRequestTargets \X RequestSources) \cup ({SettingsTarget} \X SettingsSources)

(* ------------------------------ instances ----------------------------- *)

\* the instances of the class a program makes
ClientNames == {"first", "second"}

\* where an object is: ETrade.defaults, the options given to an instance or the
\* settings of an instance; part is "root" for the object itself and the key for
\* an object nested in it
DefaultsAt == [owner |-> "defaults", client |-> "", part |-> "root"]

OptionsAt(k) == [owner |-> "options", client |-> k, part |-> "root"]

SettingsAt(k) == [owner |-> "settings", client |-> k, part |-> "root"]

Part(a, f) == [a EXCEPT !.part = f]

Addresses ==
    { Part(a, f) : a \in {DefaultsAt} \cup { OptionsAt(k) : k \in ClientNames }
                                     \cup { SettingsAt(k) : k \in ClientNames },
                   f \in {"root", "urls"} }

\* a reference to the object at an address
Ref(a) == [type |-> "ref", at |-> a]

\* nothing at this address yet
NoObject == Prim("undefined")

\* the heap after the object literal v (nested objects one level deep) is
\* created at the address a
Store(h, a, v) ==
    [x \in DOMAIN h |->
        IF x = a
        THEN Map([f \in DOMAIN v.fields |->
                     IF v.fields[f].type = "map" THEN Ref(Part(a, f)) ELSE v.fields[f]])
        ELSE IF /\ x.owner = a.owner /\ x.client = a.client
                /\ x.part \in DOMAIN v.fields
                /\ v.fields[x.part].type = "map"
        THEN v.fields[x.part]
        ELSE h[x]]

\* the value of the object at the address a, references followed
Deref(h, a) ==
    IF h[a].type # "map" THEN h[a]
    ELSE Map([f \in DOMAIN h[a].fields |->
                 IF h[a].fields[f].type = "ref" THEN h[h[a].fields[f].at]
                 ELSE h[a].fields[f]])

\* lines 28-48: the static ETrade.defaults exists when the class is loaded
InitialHeap == Store([a \in Addresses |-> NoObject], DefaultsAt, SettingsTarget)

NotConstructed == [constructed |-> FALSE, passed |-> Map(NoFields)]

\* Object.assign({}, defaults, options): a new settings object whose nested
\* objects are the ones of the options or of the defaults
SharedSettings(h, k) ==
    [h EXCEPT ![SettingsAt(k)] = ShallowMerge(h[DefaultsAt], h[OptionsAt(k)])]

\* line 57: this.settings = merge(ETrade.defaults, options || {}); merge returns
\* new objects at every level (deepmerge clones by default) and writes to
\* neither argument
MergedSettings(h, k) ==
    Store(h, SettingsAt(k), DeepMerge(Deref(h, DefaultsAt), Deref(h, OptionsAt(k))))

(* ---------------------------- configuration --------------------------- *)

\* ETrade.defaults
defaults ==
    [mode |-> "dev", key |-> "", secret |-> "", accessToken |-> "", accessSecret |-> "",
     urls |-> [oauth |-> "https://api.etrade.com/oauth/",
               prod |-> "https://api.etrade.com/v1/",
               dev |-> "https://apisb.etrade.com/v1/"],
     connectionLimit |-> 10, connectionLimitPeriod |-> 1000,
     errorOnConnectionLimit |-> FALSE, proxy |-> FALSE]

\* merge(ETrade.defaults, options) with the caller's urls ignored
MergeSettingsKeepingUrls(opts) ==
    [f \in DOMAIN defaults |->
        IF f \in DOMAIN opts /\ f # "urls" THEN opts[f] ELSE defaults[f]]

\* merge(ETrade.defaults, options): the fields the caller names replace the
\* defaults; urls, a nested object, is merged key by key
MergeSettings(opts) ==
    [f \in DOMAIN defaults |->
        IF f \notin DOMAIN opts THEN defaults[f]
        ELSE IF f = "urls"
        THEN [u \in DOMAIN defaults.urls |->
                 IF u \in DOMAIN opts.urls THEN opts.urls[u] ELSE defaults.urls[u]]
        ELSE opts[f]]

\* new Throttle(requestsPerPeriod, periodLength, errorOnLimit)
NewThrottle(requestsPerPeriod, periodLength, errorOnLimit) ==
    [limit |-> requestsPerPeriod, period |-> periodLength, rejectOnLimit |-> errorOnLimit]

\* the constructor's throttle, with the limit and the period exchanged
SwappedThrottle(s) ==
    NewThrottle(s.connectionLimitPeriod, s.connectionLimit, s.errorOnConnectionLimit)

\* the constructor's throttle, built from ETrade.defaults instead of this.settings
ThrottleFromDefaults(s) ==
    NewThrottle(defaults.connectionLimit, defaults.connectionLimitPeriod,
                defaults.errorOnConnectionLimit)

\* constructor: this.throttle = new Throttle(connectionLimit, connectionLimitPeriod, errorOnConnectionLimit)
ConstructThrottle(s) ==
    NewThrottle(s.connectionLimit, s.connectionLimitPeriod, s.errorOnConnectionLimit)

\* constructor: this.oauth = new OAuth({consumer: {key: settings.key, secret: settings.secret}, ...})
NewOAuth(s) == [consumer |-> [key |-> s.key, secret |-> s.secret]]

\* no consumer: the call was not signed
NoConsumer == [key |-> Undefined, secret |-> Undefined]

\* the access token pairs the server issues; NoPair: no token
AccessPairs ==
    { [key |-> "token", secret |-> "tokenSecret"], [key |-> "token2", secret |-> "tokenSecret2"] }

NoPair == [key |-> "", secret |-> ""]

\* the options objects clients are built with
ClientOptions ==
    { [key |-> "key", secret |-> "secret", accessToken |-> "token", accessSecret |-> "tokenSecret",
       connectionLimit |-> k, connectionLimitPeriod |-> w, errorOnConnectionLimit |-> e] :
        k \in 1 .. MaxLimit, w \in 0 .. MaxPeriod, e \in BOOLEAN }

(* ------------------------------ endpoints ----------------------------- *)

\* endpoints that call signRequest(requestOptions, undefined, true)
OmitEndpoints ==
    {"previewOrder", "placeOrder", "changePreviewedOrder", "placeChangedOrder", "cancelOrder"}

\* the four OAuth operations
OAuthEndpoints == {"requestToken", "getAccessToken", "renewAccessToken", "revokeAccessToken"}

Endpoints == OmitEndpoints \cup {"listAccounts", "getQuotes"} \cup OAuthEndpoints

\* data: {<root>: {orderType, clientOrderId, Order: order}} of the order endpoints
OrderData(root, p) ==
    [present |-> TRUE, root |-> root, content |-> p, previewIds |-> << >>]

\* placeOrder's data built as previewOrder builds its data, without PreviewIds
PlaceOrderDataWithoutPreviewIds(p) == OrderData("PlaceOrderRequest", p)

\* lines 596-603: data: {PlaceOrderRequest: {orderType, clientOrderId, Order: order,
\* PreviewIds: previewIds}}
PlaceOrderData(p) ==
    [present |-> TRUE, root |-> "PlaceOrderRequest", content |-> p,
     previewIds |-> PreviewIdsOf(p)]

\* the request options an endpoint method passes to getBasicRequest;
\* method Undefined: the endpoint names no method. A url is the sequence of
\* the parts its template or join puts together.
EndpointOptions(ep, p) ==
    CASE ep = "listAccounts" ->
           [method |-> Undefined, url |-> << "accounts/list.json" >>, data |-> NoData]
      [] ep = "getQuotes" ->
           [method |-> Undefined,
            url |-> << "market/quote/" >> \o JoinWithComma(SymbolsOf(p)) \o << ".json" >>,
            data |-> [present |-> TRUE, root |-> "", content |-> "quoteFlags",
                      previewIds |-> << >>]]
      [] ep = "previewOrder" ->
           [method |-> "POST", url |-> << "accounts/", "accountIdKey", "/orders/preview.json" >>,
            data |-> OrderData("PreviewOrderRequest", p)]
      [] ep = "placeOrder" ->
           [method |-> "POST", url |-> << "accounts/", "accountIdKey", "/orders/place.json" >>,
            data |-> PlaceOrderData(p)]
      [] ep = "changePreviewedOrder" ->
           [method |-> "PUT",
            url |-> << "accounts/", "accountIdKey", "/orders/", "orderId", "/change/preview.json" >>,
            data |-> OrderData("PreviewOrderRequest", p)]
      [] ep = "placeChangedOrder" ->
           [method |-> "PUT",
            url |-> << "accounts/", "accountIdKey", "/orders/", "orderId", "/change/place.json" >>,
            data |-> OrderData("PlaceOrderRequest", p)]
      [] ep = "cancelOrder" ->
           [method |-> "PUT", url |-> << "accounts/", "accountIdKey", "/orders/cancel.json" >>,
            data |-> OrderData("CancelOrderRequest", p)]
      [] OTHER ->
           \* the OAuth operations call getBasicRequest() without options
           [method |-> Undefined, url |-> << >>, data |-> NoData]

\* the third argument the endpoint gives signRequest
Omit(ep) == ep \in OmitEndpoints

\* the payloads an endpoint can be called with (listAccounts and requestToken
\* take none)
PayloadsOf(ep) ==
    CASE ep \in {"listAccounts", "requestToken"} -> {""}
      [] ep = "getQuotes" -> SymbolPayloads
      [] ep \in OAuthEndpoints -> PairPayloads
      [] OTHER -> Payloads

(* --------------------------- getBasicRequest -------------------------- *)

\* no request built yet
NoRequest ==
    [method |-> "", baseURL |-> "", url |-> << >>, headers |-> {}, proxy |-> FALSE,
     data |-> NoData, params |-> {}]

\* merge({method: 'GET', baseURL, headers, proxy}, requestOptions)
getBasicRequest(s, requestOptions) ==
    [method |-> IF requestOptions.method = Undefined THEN "GET" ELSE requestOptions.method,
     baseURL |-> IF s.mode = "prod" THEN s.urls.prod ELSE s.urls.dev,
     url |-> requestOptions.url,
     headers |-> {"User-Agent"},
     proxy |-> s.proxy,
     data |-> requestOptions.data,
     params |-> {}]

(* ------------------------------ signRequest --------------------------- *)

\* a token argument of signRequest: undefined or true ("default"), false ("none"),
\* or a {key, secret} pair
DefaultToken == [kind |-> "default", key |-> "", secret |-> ""]

\* the default token read with the consumer secret in place of the access secret
ResolveTokenWithConsumerSecret(s, token) ==
    CASE token.kind = "default" ->
           [defined |-> TRUE, key |-> s.accessToken, secret |-> s.secret]
      [] token.kind = "none" ->
           [defined |-> FALSE, key |-> "", secret |-> ""]
      [] OTHER ->
           [defined |-> TRUE, key |-> token.key, secret |-> token.secret]

\* lines 96-101 and 107: the token handed to oauth.authorize
ResolveToken(s, token) ==
    CASE token.kind = "default" ->
           [defined |-> TRUE, key |-> s.accessToken, secret |-> s.accessSecret]
      [] token.kind = "none" ->
           [defined |-> FALSE, key |-> "", secret |-> ""]
      [] OTHER ->
           [defined |-> TRUE, key |-> token.key, secret |-> token.secret]

\* [options.baseURL || '', options.url || ''].join(''): the parts of the joined url
JoinedUrl(request) ==
    (IF request.baseURL = Undefined THEN << >> ELSE << request.baseURL >>) \o request.url

\* nothing handed to the signer yet
NoSignerInput ==
    [method |-> "", url |-> << >>, data |-> NoData,
     token |-> [defined |-> FALSE, key |-> "", secret |-> ""]]

\* signRequest as the spec describes omit mode: the signer's copy keeps the data
SignerInputKeepingData(s, request, token, omit) ==
    [method |-> request.method,
     url |-> JoinedUrl(request),
     data |-> request.data,
     token |-> ResolveToken(s, token)]

\* lines 85-107: what signRequest hands to oauth.authorize: a copy of the request
\* with baseURL joined into url and, in omit mode, with data deleted
SignerInput(s, request, token, omit) ==
    [method |-> request.method,
     url |-> JoinedUrl(request),
     data |-> IF omit THEN NoData ELSE request.data,
     token |-> ResolveToken(s, token)]

\* a parameter key as its words: oauth_token is <<"oauth", "token">>
startsWithOAuth(key) == Len(key) > 0 /\ Head(key) = "oauth"

\* oauth.authorize(options, token): the keys of the object it returns
authorize(input) ==
    { <<"oauth", "consumer_key">>, <<"oauth", "nonce">>, <<"oauth", "signature_method">>,
      <<"oauth", "timestamp">>, <<"oauth", "version">>, <<"oauth", "signature">> }
    \cup (IF input.token.defined THEN { <<"oauth", "token">> } ELSE {})

\* signRequest as the spec describes omit mode: the data is stripped from the request
signRequestStrippingData(s, request, token, omit) ==
    [request EXCEPT
        !.params = @ \cup { key \in authorize(SignerInput(s, request, token, omit)) :
                              ~omit \/ startsWithOAuth(key) },
        !.data = IF omit THEN NoData ELSE @]

\* signRequest replacing request.params by the authorization instead of adding to it
signRequestReplacingParams(s, request, token, omit) ==
    [request EXCEPT
        !.params = { key \in authorize(SignerInput(s, request, token, omit)) :
                        ~omit \/ startsWithOAuth(key) }]

\* lines 109-117: the request after signRequest; only request.params is written
signRequest(s, request, token, omit) ==
    [request EXCEPT
        !.params = @ \cup { key \in authorize(SignerInput(s, request, token, omit)) :
                              ~omit \/ startsWithOAuth(key) }]

(* --------------------------- endpoint methods ------------------------- *)

\* the fixed path of an OAuth operation
OAuthPath(ep) ==
    CASE ep = "requestToken" -> "request_token"
      [] ep = "getAccessToken" -> "access_token"
      [] ep = "renewAccessToken" -> "renew_access_token"
      [] ep = "revokeAccessToken" -> "revoke_access_token"

\* the data an OAuth operation puts on its request
OAuthData(ep) ==
    CASE ep = "requestToken" ->
           [present |-> TRUE, root |-> "", content |-> "oauth_callback", previewIds |-> << >>]
      [] ep = "getAccessToken" ->
           [present |-> TRUE, root |-> "", content |-> "oauth_verifier", previewIds |-> << >>]
      [] OTHER -> NoData

\* an OAuth operation's request left as getBasicRequest() returns it
OAuthRequestKeepingBaseURL(s, ep) ==
    [getBasicRequest(s, EndpointOptions(ep, "")) EXCEPT
        !.url = << s.urls.oauth, OAuthPath(ep) >>,
        !.data = OAuthData(ep)]

\* an OAuth operation's request: getBasicRequest(), delete requestOptions.baseURL,
\* requestOptions.url = [this.settings.urls.oauth, <path>].join(''), requestOptions.data
OAuthRequest(s, ep) ==
    [getBasicRequest(s, EndpointOptions(ep, "")) EXCEPT
        !.baseURL = Undefined,
        !.url = << s.urls.oauth, OAuthPath(ep) >>,
        !.data = OAuthData(ep)]

\* the request an endpoint method builds before it signs it
EndpointRequest(s, ep, p) ==
    IF ep \in OAuthEndpoints
    THEN OAuthRequest(s, ep)
    ELSE getBasicRequest(s, EndpointOptions(ep, p))

\* every endpoint signing with the access token of the settings
TokenArgAlwaysDefault(ep, p) == DefaultToken

\* the second argument the endpoint method gives signRequest: false (requestToken),
\* the caller's {key, secret} (the other OAuth operations), or none
TokenArg(ep, p) ==
    CASE ep = "requestToken" -> [kind |-> "none", key |-> "", secret |-> ""]
      [] ep \in OAuthEndpoints \ {"requestToken"} ->
           [kind |-> "pair", key |-> PairOf(p).key, secret |-> PairOf(p).secret]
      [] OTHER -> DefaultToken

(* ------------------------- request: the unit of work ------------------ *)

\* the error axios.request throws; err.response is set only when o.kind = "httpError"
TransportError(o) ==
    Settled("AxiosError", "axios", o.statusText, FALSE, 0, FALSE, AbsentBody)

\* err.response.data.Error.code is truthy
TruthyCode(data) == data.hasCode /\ data.code # 0

\* the catch block with every transport failure wrapped in a new error
NormalizeAlways(o) ==
    Settled("ETradeError", "request", o.statusText, TRUE, o.status, TRUE, o.data)

\* the catch block keeping the status text as message when Error has no message
NormalizeKeepingStatusText(o) ==
    IF o.kind = "httpError"
    THEN IF o.data.shape = "absent"
         THEN Settled("TypeError", "runtime", "Cannot read properties of undefined", FALSE, 0,
                      FALSE, AbsentBody)
         ELSE Settled("ETradeError", "request",
                      IF o.data.hasError /\ o.data.hasMessage THEN o.data.message
                      ELSE o.statusText,
                      TRUE,
                      IF o.data.hasError /\ TruthyCode(o.data) THEN o.data.code ELSE o.status,
                      TRUE, o.data)
    ELSE TransportError(o)

\* lines 132-153: the error the catch block throws for the transport failure o
Normalize(o) ==
    IF o.kind = "httpError"
    THEN IF o.data.shape = "absent"
         THEN \* err.response.data.Error on null or undefined throws
              Settled("TypeError", "runtime", "Cannot read properties of undefined", FALSE, 0,
                      FALSE, AbsentBody)
         ELSE Settled("ETradeError", "request",
                      IF o.data.hasError THEN o.data.message ELSE o.statusText,
                      TRUE,
                      IF o.data.hasError /\ TruthyCode(o.data) THEN o.data.code ELSE o.status,
                      TRUE, o.data)
    ELSE TransportError(o)

\* lines 126-154: how the unit of work settles when the transport does o;
\* a value carries the response data in raw
UnitResult(o) ==
    IF o.kind = "success"
    THEN Settled("value", "axios", "", FALSE, 0, FALSE, o.data)
    ELSE Normalize(o)

\* what debugRequest(id, ...) or debugResponse(id, ...) writes
LogEntry(event, id) == [event |-> event, id |-> id]

\* lines 129 and 138-151: what the unit of work logs when the transport has done
\* o: debugResponse(id, results) on success; on failure debugResponse(id, err),
\* which is not reached when reading err.response.data.Error throws
ResponseLog(id, o) ==
    IF o.kind = "httpError" /\ o.data.shape = "absent"
    THEN << >>
    ELSE << LogEntry("response", id) >>

\* whether a settled promise is a value
IsValue(r) == r.kind = "value"

\* a unit of work that goes back to the caller's hands when the transport fails,
\* to be submitted again
SettledAsRetrying(r) == IF IsValue(r) THEN "resolved" ELSE "idle"

\* lines 126-155: the unit of work returns the results or throws the error, once
SettledAs(r) == IF IsValue(r) THEN "resolved" ELSE "rejected"

\* whether the body carries the response object the endpoint method unwraps
HasResponseObject(data) == data.shape = "object" /\ ~data.hasError

\* the promise the endpoint method returns once request() has settled with r:
\* an error passes through the await; listAccounts and getQuotes read two levels
\* into the body (.AccountListResponse.Accounts.Account, .QuoteResponse.QuoteData[0]),
\* the order endpoints one level (.PlaceOrderResponse, ...), the OAuth operations
\* parse or return the body as it is
EndpointResult(ep, r) ==
    IF ~IsValue(r) THEN r
    ELSE IF ep \in OAuthEndpoints THEN Settled("value", "endpoint", "", FALSE, 0, TRUE, r.raw)
    ELSE IF HasResponseObject(r.raw) THEN Settled("value", "endpoint", "", FALSE, 0, TRUE, r.raw)
    ELSE IF ep \in {"listAccounts", "getQuotes"}
    THEN Settled("TypeError", "runtime", "Cannot read properties of undefined", FALSE, 0,
                 FALSE, AbsentBody)
    ELSE \* the response object is undefined
         Settled("value", "endpoint", "", FALSE, 0, FALSE, AbsentBody)

\* no authorization url returned
NoAuthorizeUrl == [key |-> Undefined]

\* line 227: url: `https://us.etrade.com/e/t/etws/authorize?key=${this.settings.key}&token=...`,
\* read when the awaited request has resolved
AuthorizeUrl(s, ep, r) ==
    IF ep = "requestToken" /\ IsValue(r) THEN [key |-> s.key] ELSE NoAuthorizeUrl

(* ------------------------------ throttle ------------------------------ *)

FreeSlot == [holder |-> 0, age |-> throttle.period]

\* the slots a unit can be admitted to: not held, and the period has elapsed
\* since the slot's last admission
AvailableSlots ==
    { i \in DOMAIN slots : slots[i].holder = 0 /\ slots[i].age >= throttle.period }

\* the calls whose unit of work is executing
Executing == { c \in Calls : pc[c] = "executing" }

\* the error acquire rejects with when it is at capacity and rejects instead of queueing
ThrottleError ==
    Settled("ThrottleError", "throttle", "Throttle Maximum Reached", FALSE, 0, FALSE, AbsentBody)

\* the waiting unit admitted next, taken from the wrong end of the queue
NewestWaiting == queue[Len(queue)]

\* the waiting unit admitted next: the oldest
NextWaiting == Head(queue)

\* the queue without the call c
Without(q, c) == SelectSeq(q, LAMBDA x : x # c)

\* lines 122-127: the unit of work of call c starts:
\* const id = 0 + (++this._id); debugRequest(id, options); axios.request(options)
UnitStart(c) ==
    /\ _id' = _id + 1
    /\ callId' = [callId EXCEPT ![c] = _id + 1]
    /\ log' = [log EXCEPT ![c] = Append(@, LogEntry("request", _id + 1))]
    /\ requests' = [requests EXCEPT ![c] = @ + 1]
    /\ tokenAtStart' = [tokenAtStart EXCEPT ![c] =
                           [key |-> settings.accessToken, secret |-> settings.accessSecret]]
    /\ pc' = [pc EXCEPT ![c] = "executing"]

\* the throttle gives slot i to call c
TakeSlot(c, i) == slots' = [slots EXCEPT ![i] = [holder |-> c, age |-> 0]]

\* the throttle releases the slot call c holds; the slot keeps its age
ReleaseSlot(c) ==
    slots' = [i \in DOMAIN slots |->
                 IF slots[i].holder = c THEN [slots[i] EXCEPT !.holder = 0] ELSE slots[i]]

\* the available slot the throttle uses next
PickSlot == CHOOSE i \in AvailableSlots : \A j \in AvailableSlots : i <= j

\* throttle.acquire(unit) for call c: run the unit at once if nothing waits and
\* a slot is available; otherwise reject (rejectOnLimit) or queue
acquire(c) ==
    IF queue = <<>> /\ AvailableSlots # {}
    THEN /\ UnitStart(c)
         /\ TakeSlot(c, PickSlot)
         /\ UNCHANGED <<queue, waited, result>>
    ELSE IF throttle.rejectOnLimit
    THEN /\ pc' = [pc EXCEPT ![c] = "rejected"]
         /\ result' = [result EXCEPT ![c] = ThrottleError]
         /\ UNCHANGED <<queue, waited, slots, _id, callId, requests, log, tokenAtStart>>
    ELSE /\ pc' = [pc EXCEPT ![c] = "queued"]
         /\ queue' = Append(queue, c)
         /\ waited' = [waited EXCEPT ![c] = TRUE]
         /\ UNCHANGED <<result, slots, _id, callId, requests, log, tokenAtStart>>

\* request() run without the throttle: the unit of work starts at once, in no slot
requestUnthrottled(c) ==
    /\ UnitStart(c)
    /\ UNCHANGED <<queue, waited, result, slots>>

\* line 121: request(options) submits its unit of work to the throttle
request(c) == acquire(c)

\* a unit of work that signs its request again when the throttle admits it
AdmittedRequestResigned(c) ==
    LET unsigned == [options[c] EXCEPT !.params = {}]
        token == TokenArg(endpoint[c], payload[c])
    IN /\ authInput' = [authInput EXCEPT ![c] =
                           SignerInput(settings, unsigned, token, Omit(endpoint[c]))]
       /\ options' = [options EXCEPT ![c] =
                         signRequest(settings, unsigned, token, Omit(endpoint[c]))]
       /\ consumer' = [consumer EXCEPT ![c] = oauth.consumer]
       /\ signatures' = [signatures EXCEPT ![c] = @ + 1]

\* lines 121-126: the unit of work the throttle admits hands axios.request the
\* options object request() was called with, signed as it was
AdmittedRequest(c) == UNCHANGED <<authInput, options, consumer, signatures>>

(* ------------------------------ actions ------------------------------- *)

\* new ETrade(opts)
Construct(opts) ==
    /\ settings = MergeSettings(opts)
    /\ throttle = ConstructThrottle(settings)
    /\ slots = [i \in 1 .. throttle.limit |-> FreeSlot]
    /\ queue = <<>>
    /\ _id = 0
    /\ pc = [c \in Calls |-> "idle"]
    /\ endpoint = [c \in Calls |-> ""]
    /\ payload = [c \in Calls |-> ""]
    /\ authInput = [c \in Calls |-> NoSignerInput]
    /\ options = [c \in Calls |-> NoRequest]
    /\ callId = [c \in Calls |-> 0]
    /\ waited = [c \in Calls |-> FALSE]
    /\ outcome = [c \in Calls |-> NoOutcome]
    /\ result = [c \in Calls |-> NoResult]
    /\ given = opts
    /\ oauth = NewOAuth(settings)
    /\ install = NoPair
    /\ consumer = [c \in Calls |-> NoConsumer]
    /\ requests = [c \in Calls |-> 0]
    /\ authorizeUrl = [c \in Calls |-> NoAuthorizeUrl]
    /\ signatures = [c \in Calls |-> 0]
    /\ log = [c \in Calls |-> << >>]
    /\ tokenAtStart = [c \in Calls |-> NoPair]
    /\ merged = NotMerged
    /\ heap = InitialHeap
    /\ clients = [k \in ClientNames |-> NotConstructed]

Init == \E opts \in ClientOptions : Construct(opts)

\* the caller invokes endpoint method ep with payload p; calls are numbered in
\* the order they are made
Call(c, ep, p) ==
    /\ pc[c] = "idle"
    /\ install = NoPair
    /\ \A d \in Calls : d < c => pc[d] # "idle"
    /\ LET requestOptions == EndpointRequest(settings, ep, p)
       IN /\ authInput' = [authInput EXCEPT ![c] =
                              SignerInput(settings, requestOptions, TokenArg(ep, p), Omit(ep))]
          /\ options' = [options EXCEPT ![c] =
                            signRequest(settings, requestOptions, TokenArg(ep, p), Omit(ep))]
    /\ consumer' = [consumer EXCEPT ![c] = oauth.consumer]
    /\ signatures' = [signatures EXCEPT ![c] = @ + 1]
    /\ endpoint' = [endpoint EXCEPT ![c] = ep]
    /\ payload' = [payload EXCEPT ![c] = p]
    /\ request(c)
    /\ UNCHANGED <<merged, heap, clients>>
    /\ UNCHANGED <<settings, throttle, outcome, given, oauth, install, authorizeUrl>>

\* the throttle admits the next waiting unit to an available slot
Admit ==
    /\ queue # <<>>
    /\ AvailableSlots # {}
    /\ AdmittedRequest(NextWaiting)
    /\ UnitStart(NextWaiting)
    /\ TakeSlot(NextWaiting, PickSlot)
    /\ queue' = Without(queue, NextWaiting)
    /\ UNCHANGED <<merged, heap, clients>>
    /\ UNCHANGED <<settings, throttle, endpoint, payload, waited, outcome,
                   result, given, oauth, install, authorizeUrl>>

\* one tick of the clock: every slot's last admission is one tick older
Tick ==
    /\ \E i \in DOMAIN slots : slots[i].age < throttle.period
    /\ slots' = [i \in DOMAIN slots |->
                    [slots[i] EXCEPT !.age = IF @ < throttle.period THEN @ + 1 ELSE @]]
    /\ UNCHANGED <<merged, heap, clients>>
    /\ UNCHANGED <<settings, throttle, queue, _id, pc, endpoint, payload, authInput, options,
                   callId, waited, outcome, result, given, oauth, install, consumer, requests,
                   authorizeUrl, signatures, log, tokenAtStart>>

\* the transport finishes the request of call c with outcome o; the unit of
\* work settles and the throttle releases the slot it held
Finish(c, o) ==
    /\ pc[c] = "executing"
    /\ outcome' = [outcome EXCEPT ![c] = o]
    /\ result' = [result EXCEPT ![c] = UnitResult(o)]
    /\ pc' = [pc EXCEPT ![c] = SettledAs(UnitResult(o))]
    /\ authorizeUrl' = [authorizeUrl EXCEPT ![c] = AuthorizeUrl(settings, endpoint[c], UnitResult(o))]
    /\ log' = [log EXCEPT ![c] = @ \o ResponseLog(callId[c], o)]
    /\ ReleaseSlot(c)
    /\ UNCHANGED <<merged, heap, clients>>
    /\ UNCHANGED <<settings, throttle, queue, _id, endpoint, payload, authInput, options,
                   callId, waited, given, oauth, install, consumer, requests, signatures,
                   tokenAtStart>>

\* the caller assigns settings.accessToken the key of a pair the server issued:
\* the first of the two assignments of the README
AssignAccessToken(pair) ==
    /\ install = NoPair
    /\ pair.key # settings.accessToken
    /\ settings' = [settings EXCEPT !.accessToken = pair.key]
    /\ install' = pair
    /\ UNCHANGED <<merged, heap, clients>>
    /\ UNCHANGED <<throttle, slots, queue, _id, pc, endpoint, payload, authInput, options,
                   callId, waited, outcome, result, given, oauth, consumer, requests,
                   authorizeUrl, signatures, log, tokenAtStart>>

\* the caller assigns settings.accessSecret the secret of that pair: the second
\* assignment, the statement after the first
AssignAccessSecret ==
    /\ install # NoPair
    /\ settings' = [settings EXCEPT !.accessSecret = install.secret]
    /\ install' = NoPair
    /\ UNCHANGED <<merged, heap, clients>>
    /\ UNCHANGED <<throttle, slots, queue, _id, pc, endpoint, payload, authInput, options,
                   callId, waited, outcome, result, given, oauth, consumer, requests,
                   authorizeUrl, signatures, log, tokenAtStart>>

\* the caller assigns settings.key
AssignKey(k) ==
    /\ install = NoPair
    /\ k # settings.key
    /\ settings' = [settings EXCEPT !.key = k]
    /\ UNCHANGED <<merged, heap, clients>>
    /\ UNCHANGED <<throttle, slots, queue, _id, pc, endpoint, payload, authInput, options,
                   callId, waited, outcome, result, given, oauth, install, consumer, requests,
                   authorizeUrl, signatures, log, tokenAtStart>>

\* lines 57 and 74: merge(target, source)
Merge(target, source) ==
    /\ merged' = [done |-> TRUE, target |-> target, source |-> source,
                  result |-> DeepMerge(target, source)]
    /\ UNCHANGED <<settings, throttle, slots, queue, _id, pc, endpoint, payload, authInput,
                   options, callId, waited, outcome, result, given, oauth, install, consumer,
                   requests, authorizeUrl, signatures, log, tokenAtStart, heap, clients>>

\* the state of the single client and of the merge, which another instance and
\* the assignments to its settings leave alone
instance == <<settings, throttle, slots, queue, _id, pc, endpoint, payload, authInput,
              options, callId, waited, outcome, result, given, oauth, install, consumer,
              requests, authorizeUrl, signatures, log, tokenAtStart, merged>>

\* line 56-58: new ETrade(options) for the instance k; the options object is the
\* caller's, the settings object is what merge returns
New(k, opts) ==
    /\ ~clients[k].constructed
    /\ heap' = MergedSettings(Store(heap, OptionsAt(k), opts), k)
    /\ clients' = [clients EXCEPT ![k] = [constructed |-> TRUE, passed |-> opts]]
    /\ UNCHANGED instance

\* line 50: settings is public; client.settings.<field> = value
AssignSetting(k, f, v) ==
    /\ clients[k].constructed
    /\ heap' = [heap EXCEPT ![SettingsAt(k)] = Map((f :> Prim(v)) @@ @.fields)]
    /\ UNCHANGED <<instance, clients>>

\* line 50: client.settings.urls.<name> = value writes the object settings.urls
\* refers to
AssignUrl(k, u, v) ==
    /\ clients[k].constructed
    /\ heap' = [heap EXCEPT ![heap[SettingsAt(k)].fields["urls"].at] =
                                 Map((u :> Prim(v)) @@ @.fields)]
    /\ UNCHANGED <<instance, clients>>

(* --------------------------- specifications --------------------------- *)

\* the endpoints and transport outcomes of the throttle's specification
ThrottleEndpoints == {"listAccounts"}

ThrottleOutcomes ==
    { o \in SuccessOutcomes : o.data = PlainBody }
    \cup { o \in HttpErrorOutcomes : o.status = 400 /\ o.data = PlainBody }
    \cup { o \in NetworkErrorOutcomes : o.statusText = "ETIMEDOUT" }

Next ==
    \/ \E c \in Calls, ep \in ThrottleEndpoints : Call(c, ep, IF ep = "listAccounts" THEN "" ELSE "orderA")
    \/ Admit
    \/ Tick
    \/ \E c \in Calls, o \in ThrottleOutcomes : Finish(c, o)

\* several calls in flight on one client
Spec == Init /\ [][Next]_vars

\* the same, with the scheduling the event loop gives: a transport request
\* finishes, the clock advances, and the throttle admits a waiting unit when it can
FairSpec ==
    /\ Spec
    /\ WF_vars(Admit)
    /\ WF_vars(Tick)
    /\ \A c \in Calls : WF_vars(\E o \in ThrottleOutcomes : Finish(c, o))

\* one call at a time, over every endpoint, payload and transport outcome
DispatchCalls == {1}

NextDispatch ==
    \/ \E c \in DispatchCalls, ep \in Endpoints : \E p \in PayloadsOf(ep) : Call(c, ep, p)
    \/ \E c \in DispatchCalls, o \in Outcomes : Finish(c, o)

SpecDispatch == Init /\ [][NextDispatch]_vars

\* a client built with or without consumer credentials, a mode and urls
EmptyOptions == [f \in {} |-> ""]

Optional(f, v) == IF v = "" THEN EmptyOptions ELSE f :> v

UrlOverrides ==
    { EmptyOptions,
      [prod |-> "https://prod.example/v1/"],
      [dev |-> "https://dev.example/v1/"],
      [oauth |-> "https://oauth.example/", dev |-> "https://dev.example/v1/"] }

ConfigOptions ==
    { [key |-> k, secret |-> x, urls |-> u, connectionLimit |-> 1] @@ Optional("mode", m) :
        k \in {"", "key"}, x \in {"", "secret"}, m \in {"", "dev", "prod"}, u \in UrlOverrides }

InitConfig == \E opts \in ConfigOptions : Construct(opts)

SpecConfig == InitConfig /\ [][NextDispatch]_vars

\* one client over its life: the caller installs access tokens, assigns
\* settings.key and calls endpoints
SessionOptions ==
    { [key |-> "key", secret |-> "secret", connectionLimit |-> 2, connectionLimitPeriod |-> 0],
      [key |-> "key", secret |-> "secret", connectionLimit |-> 2, connectionLimitPeriod |-> 0,
       accessToken |-> "token", accessSecret |-> "tokenSecret"] }

\* two calls, so that one follows a change of the settings the other preceded
SessionCalls == {1, 2}

SessionKeys == {"key", "otherKey"}

\* the endpoints of a session: the OAuth operations, and signed with the settings'
\* token a request without data, one with signed data and one in omit mode
SessionEndpoints == OAuthEndpoints \cup {"listAccounts", "getQuotes", "placeOrder"}

SessionOutcomes ==
    { o \in SuccessOutcomes : o.data = PlainBody }
    \cup { o \in HttpErrorOutcomes : o.status = 400 /\ o.data = PlainBody }

InitSession == \E opts \in SessionOptions : Construct(opts)

NextSession ==
    \/ \E c \in SessionCalls, ep \in SessionEndpoints : \E p \in PayloadsOf(ep) : Call(c, ep, p)
    \/ \E c \in SessionCalls, o \in SessionOutcomes : Finish(c, o)
    \/ \E pair \in AccessPairs : AssignAccessToken(pair)
    \/ AssignAccessSecret
    \/ \E k \in SessionKeys : AssignKey(k)

SpecSession == InitSession /\ [][NextSession]_vars

\* a client whose calls wait in the throttle's queue while the caller replaces
\* the access token
RotationOptions ==
    { [key |-> "key", secret |-> "secret", accessToken |-> "token",
       accessSecret |-> "tokenSecret", connectionLimit |-> 1, connectionLimitPeriod |-> 0] }

RotationOutcomes ==
    { o \in SuccessOutcomes : o.data = PlainBody }
    \cup { o \in HttpErrorOutcomes : o.status = 400 /\ o.data = PlainBody }

InitRotation == \E opts \in RotationOptions : Construct(opts)

NextRotation ==
    \/ \E c \in Calls : Call(c, "listAccounts", "")
    \/ Admit
    \/ \E c \in Calls, o \in RotationOutcomes : Finish(c, o)
    \/ \E pair \in AccessPairs : AssignAccessToken(pair)
    \/ AssignAccessSecret

SpecRotation == InitRotation /\ [][NextRotation]_vars

\* the merges of request options and of constructor options into their defaults
NextMerge == \E input \in MergeInputs : Merge(input[1], input[2])

SpecMerge == InitRotation /\ [][NextMerge]_vars

\* two instances are constructed and their settings assigned to
NextClients ==
    \/ \E k \in ClientNames, opts \in SettingsSources : New(k, opts)
    \/ \E k \in ClientNames : AssignSetting(k, "mode", "prod")
    \/ \E k \in ClientNames : AssignSetting(k, "key", "otherKey")
    \/ \E k \in ClientNames : AssignUrl(k, "dev", "https://localhost/v1/")

SpecClients == InitRotation /\ [][NextClients]_vars

(* ------------------------------- claims ------------------------------- *)

Settledpc == {"resolved", "rejected"}

\* the slots call c holds
SlotsOf(c) == { i \in DOMAIN slots : slots[i].holder = c }

\* C1: on a client built with connectionLimit = k and errorOnConnectionLimit =
\* false, at most k units of work (transport requests) execute at the same time.
C1_AtMostLimitExecuting ==
    ~settings.errorOnConnectionLimit =>
        Cardinality(Executing) <= settings.connectionLimit

\* C1 witness: k requests are executing and a further call is waiting
C1_Witness ==
    /\ ~settings.errorOnConnectionLimit
    /\ Cardinality(Executing) = settings.connectionLimit
    /\ queue # <<>>

\* C2: with errorOnConnectionLimit = false, every call that waits is eventually
\* admitted, and every submitted call eventually resolves or rejects, given that
\* every transport request eventually finishes.
C2_EveryCallCompletes ==
    \A c \in Calls :
        (~settings.errorOnConnectionLimit /\ pc[c] \in {"queued", "executing"})
            ~> (callId[c] # 0 /\ pc[c] \in Settledpc)

\* C2 witness: a call that had to wait has completed
C2_Witness ==
    \E c \in Calls :
        ~settings.errorOnConnectionLimit /\ waited[c] /\ pc[c] \in Settledpc

\* C3: with errorOnConnectionLimit = true, a call submitted while connectionLimit
\* calls are executing is rejected at once with the throttle's own error: it is
\* not queued, no unit of work starts and no transport request is made for it.
C3_RejectsAtCapacity ==
    /\ [][\A c \in Calls :
            (/\ settings.errorOnConnectionLimit
             /\ Cardinality(Executing) = settings.connectionLimit
             /\ pc[c] = "idle" /\ pc'[c] # "idle")
            => (/\ pc'[c] = "rejected"
                /\ result'[c] = ThrottleError
                /\ queue' = <<>>
                /\ _id' = _id)]_vars
    /\ [](\A c \in Calls :
            result[c] = ThrottleError =>
                pc[c] = "rejected" /\ callId[c] = 0 /\ ~waited[c] /\ outcome[c] = NoOutcome)

\* C3 witness: a call was rejected by the throttle while connectionLimit calls execute
C3_Witness ==
    \E c \in Calls :
        /\ settings.errorOnConnectionLimit
        /\ result[c] = ThrottleError
        /\ Cardinality(Executing) = settings.connectionLimit

\* C4: of two calls that both had to wait, the one submitted first has its
\* transport request started first.
C4_FifoAdmission ==
    \A a, b \in Calls :
        (a < b /\ waited[a] /\ waited[b] /\ callId[b] # 0) =>
            (callId[a] # 0 /\ callId[a] < callId[b])

\* C4 witness: two calls waited and both were admitted
C4_Witness ==
    \E a, b \in Calls : a < b /\ waited[a] /\ waited[b] /\ callId[a] # 0 /\ callId[b] # 0

\* C5: a call whose unit of work is executing holds exactly one slot, and a call
\* that has completed, whatever the transport did, holds none.
C5_OneSlotPerCall ==
    \A c \in Calls :
        /\ pc[c] = "executing" => Cardinality(SlotsOf(c)) = 1
        /\ pc[c] # "executing" => SlotsOf(c) = {}

\* C5 witness: every call has completed and the three transport outcomes occurred
C5_Witness ==
    /\ \A c \in Calls : pc[c] \in Settledpc
    /\ \A k \in {"success", "httpError", "networkError"} : \E c \in Calls : outcome[c].kind = k
    /\ \A i \in DOMAIN slots : slots[i].holder = 0

\* the calls whose request was handed to the transport by an omit-mode endpoint
OmitDispatched == { c \in Calls : callId[c] # 0 /\ endpoint[c] \in OmitEndpoints }

HttpFailed == { c \in Calls : outcome[c].kind = "httpError" }

\* C8 as stated: when the response body carries Error with a code and a
\* message, the caller's error has that code, that message and the body as raw.
C8_StructuredErrorWins ==
    \A c \in HttpFailed :
        (outcome[c].data.hasError /\ outcome[c].data.hasCode /\ outcome[c].data.hasMessage) =>
            /\ pc[c] = "rejected"
            /\ result[c].hasCode /\ result[c].code = outcome[c].data.code
            /\ result[c].message = outcome[c].data.message
            /\ result[c].hasRaw /\ result[c].raw = outcome[c].data

\* C9 as stated: when the response body has no Error field, the caller's error
\* has the HTTP status as code, the status text as message and the body as raw,
\* for every body, an empty or absent one included.
C9_FallbackError ==
    \A c \in HttpFailed :
        ~outcome[c].data.hasError =>
            /\ pc[c] = "rejected"
            /\ result[c].hasCode /\ result[c].code = outcome[c].status
            /\ result[c].message = outcome[c].statusText
            /\ result[c].hasRaw /\ result[c].raw = outcome[c].data

\* C10: when the transport fails without an HTTP response, the promise rejects
\* with the transport's own error object: no code, no raw, no new error.
C10_NetworkErrorUnmodified ==
    \A c \in Calls :
        outcome[c].kind = "networkError" =>
            /\ pc[c] = "rejected"
            /\ result[c].kind = "AxiosError" /\ result[c].origin = "axios"
            /\ result[c].message = outcome[c].statusText
            /\ ~result[c].hasCode /\ ~result[c].hasRaw

\* C10 witness: a call was rejected after a network failure
C10_Witness ==
    \E c \in Calls : outcome[c].kind = "networkError" /\ pc[c] = "rejected"

\* the calls whose transport request succeeded with a body that carries Error
SucceededWithError ==
    { c \in Calls : outcome[c].kind = "success" /\ outcome[c].data.hasError }

\* C11 as stated: when the transport succeeds with a 200 response whose body
\* carries a structured Error object, the endpoint call rejects with a normalized
\* error whose message is Error.message, whose code is Error.code and whose raw
\* is the body, as it does for a non-success status.
C11_ErrorBodyRejects ==
    \A c \in SucceededWithError :
        /\ pc[c] = "rejected"
        /\ EndpointResult(endpoint[c], result[c]).kind = "ETradeError"
        /\ EndpointResult(endpoint[c], result[c]).message = outcome[c].data.message
        /\ EndpointResult(endpoint[c], result[c]).hasRaw
        /\ EndpointResult(endpoint[c], result[c]).raw = outcome[c].data

\* the calls the caller has made
Made == { c \in Calls : pc[c] # "idle" }

\* C12 as stated: if the client's consumer key or consumer secret is empty, every
\* endpoint call fails with a signing error, and it does so before the request is
\* submitted to the throttle and before any transport request is made.
C12_EmptyCredentialsFailFast ==
    (oauth.consumer.key = "" \/ oauth.consumer.secret = "") =>
        \A c \in Made :
            /\ pc[c] = "rejected"
            /\ result[c].kind = "SigningError"
            /\ ~waited[c]
            /\ callId[c] = 0
            /\ requests[c] = 0

\* C13: no call is retried: each endpoint invocation causes at most one transport
\* request, whatever its outcome; a call the throttle rejects causes none, and a
\* call that has settled after its transport request caused exactly one.
C13_AtMostOneTransportRequest ==
    \A c \in Calls :
        /\ requests[c] <= 1
        /\ result[c] = ThrottleError => requests[c] = 0
        /\ outcome[c].kind # "none" => requests[c] = 1 /\ pc[c] \in Settledpc

\* C13 witness: one call was rejected after its transport request failed with an
\* HTTP error, having made one request, and another was rejected by the throttle,
\* having made none
C13_Witness ==
    \E c, d \in Calls :
        /\ outcome[c].kind = "httpError" /\ pc[c] = "rejected" /\ requests[c] = 1
        /\ result[d] = ThrottleError /\ pc[d] = "rejected" /\ requests[d] = 0

\* the access-token credentials the settings hold
SettingsPair(s) == [key |-> s.accessToken, secret |-> s.accessSecret]

\* a complete pair the server issued, or no token at all
CompleteOrAbsent(pair) == pair = NoPair \/ pair \in AccessPairs

\* the token the request of call c was signed with
SignedPair(c) == [key |-> authInput[c].token.key, secret |-> authInput[c].token.secret]

\* the calls signed with the access token of the settings
SignedWithSettings == { c \in Made : endpoint[c] \notin OAuthEndpoints }

C15_ConsumerKeyFixed ==
    \A c \in Made :
        /\ consumer[c].key = given.key
        /\ authorizeUrl[c] # NoAuthorizeUrl => authorizeUrl[c].key = given.key

\* the url the client was built to use under the name u: the caller's, if the
\* options name it, else the default
UrlGiven(u) ==
    IF "urls" \in DOMAIN given /\ u \in DOMAIN given.urls THEN given.urls[u]
    ELSE defaults.urls[u]

\* the mode the client was built with: sandbox ("dev") when the options name none
ModeGiven == IF "mode" \in DOMAIN given THEN given.mode ELSE "dev"

\* the calls to trading and market endpoints
TradingCalls == { c \in Made : endpoint[c] \notin OAuthEndpoints }

\* C16: the base URL of every trading/market request is the production URL when
\* the client's mode is production and the sandbox URL when it is sandbox; a
\* client built without a mode uses the sandbox URL; a urls override given to the
\* constructor replaces the URLs it names and no other.
C16_BaseUrlByMode ==
    /\ \A u \in DOMAIN defaults.urls : settings.urls[u] = UrlGiven(u)
    /\ \A c \in TradingCalls :
          options[c].baseURL = IF ModeGiven = "prod" THEN UrlGiven("prod") ELSE UrlGiven("dev")

\* C16 witness: a client built without a mode and with an override of the sandbox
\* URL only sent a trading request to the overriding URL, its production URL
\* still the default
C16_Witness ==
    /\ "mode" \notin DOMAIN given
    /\ DOMAIN given.urls = {"dev"}
    /\ settings.urls.prod = defaults.urls.prod
    /\ \E c \in TradingCalls :
          /\ callId[c] # 0
          /\ options[c].baseURL = given.urls.dev
          /\ options[c].baseURL # defaults.urls.dev

\* the calls to the four OAuth operations
OAuthCalls == { c \in Made : endpoint[c] \in OAuthEndpoints }

\* C17: requestToken, getAccessToken, renewAccessToken and revokeAccessToken
\* always address the OAuth base URL followed by their fixed path, and their
\* request carries no base URL, whatever the client's mode is; the url that is
\* signed is the same.
C17_OAuthUrl ==
    \A c \in OAuthCalls :
        /\ options[c].baseURL = Undefined
        /\ options[c].url =
              << UrlGiven("oauth"),
                 CASE endpoint[c] = "requestToken" -> "request_token"
                   [] endpoint[c] = "getAccessToken" -> "access_token"
                   [] endpoint[c] = "renewAccessToken" -> "renew_access_token"
                   [] endpoint[c] = "revokeAccessToken" -> "revoke_access_token" >>
        /\ authInput[c].url = options[c].url

\* C17 witness: a production-mode client sent getAccessToken to the default OAuth
\* base URL, which is neither of its mode-selected base URLs
C17_Witness ==
    /\ ModeGiven = "prod"
    /\ \E c \in OAuthCalls :
          /\ endpoint[c] = "getAccessToken"
          /\ callId[c] # 0
          /\ options[c].url = << defaults.urls.oauth, "access_token" >>
          /\ settings.urls.prod # defaults.urls.oauth

\* the token call c is signed with when the caller makes it
SignedTokenAtCall(c) == authInput'[c].token

\* C18: signing without a token pair (empty token secret, no oauth_token
\* parameter) is used by requestToken and by no other endpoint, whatever access
\* token the settings hold; getAccessToken, renewAccessToken and
\* revokeAccessToken sign with the {key, secret} pair the caller passes; every
\* other endpoint signs with the access-token pair the settings hold when the
\* call is made.
C18_TokenByEndpoint ==
    [][\A c \in Calls :
          (pc[c] = "idle" /\ pc'[c] # "idle") =>
              /\ endpoint'[c] = "requestToken" =>
                    /\ ~SignedTokenAtCall(c).defined
                    /\ SignedTokenAtCall(c).secret = ""
                    /\ << "oauth", "token" >> \notin options'[c].params
              /\ endpoint'[c] \in {"getAccessToken", "renewAccessToken", "revokeAccessToken"} =>
                    /\ SignedTokenAtCall(c).defined
                    /\ SignedTokenAtCall(c).key = PairOf(payload'[c]).key
                    /\ SignedTokenAtCall(c).secret = PairOf(payload'[c]).secret
                    /\ << "oauth", "token" >> \in options'[c].params
              /\ endpoint'[c] \notin OAuthEndpoints =>
                    /\ SignedTokenAtCall(c).defined
                    /\ SignedTokenAtCall(c).key = settings.accessToken
                    /\ SignedTokenAtCall(c).secret = settings.accessSecret
                    /\ << "oauth", "token" >> \in options'[c].params]_vars

\* C18 witness: on a client whose settings hold an installed access token, one
\* call was signed with that token and a requestToken call was signed with none
C18_Witness ==
    /\ SettingsPair(settings) \in AccessPairs
    /\ \E c, d \in Made :
          /\ endpoint[c] = "placeOrder"
          /\ SignedPair(c) = SettingsPair(settings)
          /\ endpoint[d] = "requestToken"
          /\ c < d
          /\ ~authInput[d].token.defined
          /\ << "oauth", "token" >> \notin options[d].params

\* the dispatched getQuotes calls with symbols ["TSLA", "GOOG"] on a sandbox client
QuoteCalls ==
    { c \in Made : /\ endpoint[c] = "getQuotes" /\ payload[c] = "TSLA,GOOG"
                   /\ settings.mode = "dev" /\ callId[c] # 0 }

\* C19 as stated: on a sandbox-mode client, getQuotes with symbols ["TSLA",
\* "GOOG"] produces exactly one request, with method GET, addressed to the
\* sandbox base URL followed by market/quote/TSLA,GOOG.json, with oauth_*
\* parameters among its query parameters, and with no request body.
C19_GetQuotesRequest ==
    \A c \in QuoteCalls :
        /\ requests[c] = 1
        /\ options[c].method = "GET"
        /\ JoinedUrl(options[c]) =
              << settings.urls.dev, "market/quote/", "TSLA", ",", "GOOG", ".json" >>
        /\ \E key \in options[c].params : startsWithOAuth(key)
        /\ ~options[c].data.present

\* the placeOrder calls handed to the transport
PlaceOrderCalls == { c \in Made : endpoint[c] = "placeOrder" /\ callId[c] # 0 }

\* C20: when placeOrder is called with the preview ids an earlier previewOrder
\* returned, the body of the placeOrder request contains
\* PlaceOrderRequest.PreviewIds equal to the list passed in: the same elements in
\* the same order, none added, dropped or altered.
C20_PreviewIdsPassedThrough ==
    \A c \in PlaceOrderCalls :
        /\ options[c].data.present
        /\ options[c].data.root = "PlaceOrderRequest"
        /\ options[c].data.previewIds = PreviewIdsOf(payload[c])

\* C20 witness: placeOrder was handed to the transport with a list of three
\* preview ids, one of them twice, in the caller's order
C20_Witness ==
    \E c \in PlaceOrderCalls :
        /\ payload[c] = "orderB"
        /\ options[c].data.previewIds = << "preview2", "preview1", "preview2" >>

\* C21: in every endpoint call the signature is computed exactly once, over the
\* request with the defaults merged in (the default method, the base URL), before
\* the request is submitted to the throttle and so before it is transmitted; the
\* request is not signed again, and is not changed, while it waits for admission
\* or after it is admitted.
C21_SignedOnceBeforeSubmission ==
    /\ [](\A c \in Calls :
             /\ signatures[c] = IF pc[c] = "idle" THEN 0 ELSE 1
             /\ pc[c] # "idle" =>
                   /\ options[c].method # Undefined
                   /\ authInput[c].method = options[c].method
                   /\ authInput[c].url = JoinedUrl(options[c])
                   /\ << "oauth", "signature" >> \in options[c].params
             /\ requests[c] > 0 => signatures[c] = 1)
    /\ [][\A c \in Calls :
             pc[c] # "idle" =>
                 /\ signatures'[c] = signatures[c]
                 /\ authInput'[c] = authInput[c]
                 /\ options'[c] = options[c]]_vars

\* C21 witness: a call that waited in the queue has been transmitted, signed
\* once, while another, signed once, still waits and has not been transmitted
C21_Witness ==
    \E c, d \in Calls :
        /\ waited[c] /\ callId[c] # 0 /\ signatures[c] = 1
        /\ << "oauth", "signature" >> \in options[c].params
        /\ pc[d] = "queued" /\ signatures[d] = 1 /\ requests[d] = 0

\* the calls whose unit of work has started: the dispatches
Dispatched == { c \in Calls : callId[c] # 0 }

\* C22 as stated: each dispatch has a call sequence number no other dispatch of
\* the client has, greater than the number of every dispatch that started before
\* it (dispatches start in the order the calls are made), and it is logged once
\* at request submission and, for every outcome of the transport, once at response
\* or failure, with that same number.
C22_NumberedAndLogged ==
    \A c \in Dispatched :
        /\ callId[c] <= _id
        /\ \A d \in Dispatched : c < d => callId[c] < callId[d]
        /\ pc[c] = "executing" => log[c] = << LogEntry("request", callId[c]) >>
        /\ pc[c] \in Settledpc =>
              log[c] = << LogEntry("request", callId[c]), LogEntry("response", callId[c]) >>

\* the calls whose transport failed with an HTTP response that carries Error
FailedWithError == { c \in HttpFailed : outcome[c].data.hasError }

\* C24: when the transport fails with an HTTP response whose body carries an
\* Error object, the normalized error's code is Error.code only if Error.code is
\* present and non-zero, and the HTTP status otherwise; its message is
\* Error.message, also when Error.message is absent: the message is then
\* undefined and the HTTP status text is lost.
C24_CodeIfTruthyMessageAlways ==
    \A c \in FailedWithError :
        /\ pc[c] = "rejected"
        /\ result[c].kind = "ETradeError"
        /\ result[c].hasCode
        /\ result[c].code = IF outcome[c].data.hasCode /\ outcome[c].data.code # 0
                            THEN outcome[c].data.code
                            ELSE outcome[c].status
        /\ result[c].message = IF outcome[c].data.hasMessage
                               THEN outcome[c].data.message
                               ELSE Undefined
        /\ ~outcome[c].data.hasMessage => result[c].message # outcome[c].statusText

\* C24 witness: a call was rejected after an HTTP error whose Error object has
\* code 0 and no message: the error has the HTTP status as code and no message
C24_Witness ==
    \E c \in FailedWithError :
        /\ outcome[c].data.hasCode /\ outcome[c].data.code = 0
        /\ ~outcome[c].data.hasMessage
        /\ result[c].code = outcome[c].status
        /\ result[c].message = Undefined

\* params a request may hold before it is signed
PriorParams == { {}, { << "count" >> }, { << "count" >>, << "oauth", "token" >> } }

\* a request without regard to its params
WithoutParams(r) == [r EXCEPT !.params = {}]

\* C25: signRequest changes nothing of the request it is given except its
\* params: method, url, baseURL, headers and data are the same before and after,
\* in omit mode as in normal mode, and the params already present are kept.
C25_SignRequestWritesParamsOnly ==
    \A c \in Made :
        LET before == EndpointRequest(settings, endpoint[c], payload[c])
            token == TokenArg(endpoint[c], payload[c])
            omit == Omit(endpoint[c])
        IN /\ WithoutParams(options[c]) = WithoutParams(before)
           /\ before.params \subseteq options[c].params
           /\ \A prior \in PriorParams :
                 LET unsigned == [before EXCEPT !.params = prior]
                     signed == signRequest(settings, unsigned, token, omit)
                 IN /\ WithoutParams(signed) = WithoutParams(unsigned)
                    /\ prior \subseteq signed.params
                    /\ << "oauth", "signature" >> \in signed.params

\* C25 witness: an omit-mode request and a normal-mode request with data were
\* signed, and each still has its method, url, headers and data
C25_Witness ==
    \E c \in Made :
        /\ endpoint[c] \in {"cancelOrder", "getQuotes"}
        /\ options[c].data.present
        /\ options[c].data = EndpointOptions(endpoint[c], payload[c]).data
        /\ options[c].headers = {"User-Agent"}
        /\ options[c].baseURL = settings.urls.dev
        /\ << "oauth", "signature" >> \in options[c].params

\* C26: the access token a request is signed with is the one the settings hold
\* when the endpoint method is called; once the call is made, its signed request
\* does not change, so a request that waits in the throttle's queue while the
\* caller replaces settings.accessToken and settings.accessSecret is transmitted
\* with the old token, and only calls made after the replacement use the new pair.
C26_TokenOfCallTime ==
    [][\A c \in Calls :
          /\ (pc[c] = "idle" /\ pc'[c] # "idle") =>
                /\ authInput'[c].token.key = settings.accessToken
                /\ authInput'[c].token.secret = settings.accessSecret
                /\ << "oauth", "token" >> \in options'[c].params
          /\ pc[c] # "idle" =>
                /\ authInput'[c] = authInput[c]
                /\ options'[c] = options[c]
                /\ consumer'[c] = consumer[c]]_vars

\* C26 witness: a call that waited was transmitted when the settings held
\* another pair than the one it was signed with, and a later call was signed
\* with that new pair
C26_Witness ==
    \E c, d \in Made :
        /\ waited[c] /\ callId[c] # 0
        /\ SignedPair(c) \in AccessPairs
        /\ tokenAtStart[c] \in AccessPairs
        /\ tokenAtStart[c] # SignedPair(c)
        /\ c < d
        /\ SignedPair(d) = tokenAtStart[c]

\* C23: merging request-specific fields over the defaults, the request-specific
\* value wins for every key present in both; nested mappings are merged key by
\* key, so that default keys the caller did not override are kept; arrays and
\* primitive leaves of the request-specific value are taken as they are. (No
\* default holds an array, so the two-array case of merge, which concatenates,
\* does not arise in a merge the client makes.)
C23_RequestWinsNestedMerged ==
    merged.done =>
        LET t == merged.target.fields
            s == merged.source.fields
            r == merged.result.fields
        IN  /\ merged.result.type = "map"
            /\ DOMAIN r = DOMAIN t \cup DOMAIN s
            /\ \A k \in DOMAIN t \ DOMAIN s : r[k] = t[k]
            /\ \A k \in DOMAIN s \ DOMAIN t : r[k] = s[k]
            /\ \A k \in DOMAIN s \cap DOMAIN t :
                  IF s[k].type = "map" /\ t[k].type = "map"
                  THEN /\ r[k].type = "map"
                       /\ DOMAIN r[k].fields = DOMAIN t[k].fields \cup DOMAIN s[k].fields
                       /\ \A j \in DOMAIN t[k].fields \ DOMAIN s[k].fields :
                             r[k].fields[j] = t[k].fields[j]
                       /\ \A j \in DOMAIN s[k].fields : r[k].fields[j] = s[k].fields[j]
                  ELSE r[k] = s[k]
            /\ \A k \in DOMAIN s :
                  s[k].type = "map" =>
                      \A j \in DOMAIN s[k].fields :
                          s[k].fields[j].type = "map" =>
                              \A i \in DOMAIN s[k].fields[j].fields :
                                  /\ s[k].fields[j].fields[i].type = "array"
                                  /\ r[k].fields[j].fields[i] = s[k].fields[j].fields[i]

\* a request that overrides the method, adds an Accept header and carries an
\* array in its data has been merged over the defaults
C23_Witness ==
    /\ merged.done
    /\ merged.target \in BasicRequestTargets
    /\ "method" \in DOMAIN merged.source.fields
    /\ "headers" \in DOMAIN merged.source.fields
    /\ DOMAIN merged.source.fields["headers"].fields = {"Accept"}
    /\ "data" \in DOMAIN merged.source.fields
    /\ merged.result.fields["method"] = Prim("POST")
    /\ DOMAIN merged.result.fields["headers"].fields = {"UserAgent", "Accept"}
    /\ merged.result.fields["data"].fields["PlaceOrderRequest"].fields["PreviewIds"].items
           = << "preview2", "preview1" >>

\* the settings of an instance as a value, nested objects followed
SettingsOf(h, k) == Deref(h, SettingsAt(k))

\* C27: clients do not share configuration: at every moment ETrade.defaults has
\* the value it was declared with and the options object given to a constructor
\* has the value the caller gave it, and a step that changes the settings of one
\* instance (its construction, an assignment to a field of its settings or to a
\* key of its nested urls) leaves the settings of every other instance as they
\* were.
C27_NoSharedConfiguration ==
    /\ [](/\ Deref(heap, DefaultsAt) = SettingsTarget
          /\ \A k \in ClientNames :
                clients[k].constructed => Deref(heap, OptionsAt(k)) = clients[k].passed)
    /\ [][\A k \in ClientNames :
              SettingsOf(heap', k) # SettingsOf(heap, k) =>
                  \A j \in ClientNames \ {k} : SettingsOf(heap', j) = SettingsOf(heap, j)]_vars

\* both instances are constructed, one with nested urls given and one without,
\* and a nested url and a field of the first have been assigned: the two differ
\* in exactly what was assigned, and the first no longer has what it was given
C27_Witness ==
    /\ clients["first"].constructed /\ clients["second"].constructed
    /\ "urls" \notin DOMAIN clients["second"].passed.fields
    /\ "urls" \in DOMAIN clients["first"].passed.fields
    /\ "dev" \in DOMAIN clients["first"].passed.fields["urls"].fields
    /\ SettingsOf(heap, "first").fields["urls"].fields["dev"] = Prim("https://localhost/v1/")
    /\ SettingsOf(heap, "first").fields["mode"] = Prim("prod")
    /\ "mode" \notin DOMAIN clients["first"].passed.fields
    /\ SettingsOf(heap, "second").fields["urls"] = SettingsTarget.fields["urls"]
    /\ SettingsOf(heap, "second").fields["mode"] = Prim("dev")

====
